---- MODULE Spec2Model ----
(***************************************************************************)
(* Model of GEMINI.py: a Flask application that turns an uploaded PDF into *)
(* a knowledge-graph image.                                                *)
(*                                                                         *)
(*   upload_pdf  ->  extract_text_from_pdf  ->  extract_knowledge_triples  *)
(*               ->  build_and_save_graph   ->  JSON response              *)
(*                                                                         *)
(* Text is modelled as a sequence of one-character strings, so that the    *)
(* whitespace stripping, the code-fence regular expression and the JSON    *)
(* parser are computed character by character, as the code computes them.  *)
(***************************************************************************)
EXTENDS Integers, Sequences, FiniteSets, TLC

(***************************************************************************)
(* Characters and text                                                     *)
(***************************************************************************)
Q  == "\""
NL == "\n"
SP == " "
\* The backquote character (written as a name: the fence is three of them).
BT == "BACKTICK"

Digits == {"0", "1", "2", "3", "4", "5", "6", "7", "8", "9"}

DigitVal(c) ==
  CASE c = "0" -> 0 [] c = "1" -> 1 [] c = "2" -> 2 [] c = "3" -> 3
    [] c = "4" -> 4 [] c = "5" -> 5 [] c = "6" -> 6 [] c = "7" -> 7
    [] c = "8" -> 8 [] c = "9" -> 9

\* Whitespace of the model's alphabet (str.strip and the JSON scanner agree on it).
IsWs(c) == c \in {SP, NL}

MinOf(S) == CHOOSE i \in S : \A j \in S : i <= j
MaxOf(S) == CHOOSE i \in S : \A j \in S : j <= i

\* str.strip(): drop leading and trailing whitespace.
strip(s) ==
  LET keep == {i \in 1..Len(s) : ~IsWs(s[i])}
  IN  IF keep = {} THEN <<>> ELSE SubSeq(s, MinOf(keep), MaxOf(keep))

\* s has the literal p at position i.
StartsAt(s, i, p) ==
  /\ i >= 1
  /\ i + Len(p) - 1 <= Len(s)
  /\ \A k \in 1..Len(p) : s[i + k - 1] = p[k]

Fence   == <<BT, BT, BT>>
JsonTag == <<"j", "s", "o", "n">>

\* '^' under re.MULTILINE: the start of the text or just after a newline.
AtLineStart(s, i) == i = 1 \/ s[i - 1] = NL
\* '$' under re.MULTILINE: the end of the text or just before a newline.
AtLineEnd(s, i) == i = Len(s) + 1 \/ (i <= Len(s) /\ s[i] = NL)

\* The pattern without its optional tag, ^BT{3}|BT{3}$ (mutant of FenceMatchLen).
FenceMatchLenNoTag(s, i) ==
  IF AtLineStart(s, i) /\ StartsAt(s, i, Fence) THEN 3
  ELSE IF StartsAt(s, i, Fence) /\ AtLineEnd(s, i + 3) THEN 3 ELSE 0

\* Length of the match of  ^BT{3}(?:json)?|BT{3}$  at position i (0: no match).
\* The first alternative is tried first, and its optional tag is greedy.
FenceMatchLen(s, i) ==
  IF AtLineStart(s, i) /\ StartsAt(s, i, Fence)
  THEN (IF StartsAt(s, i + 3, JsonTag) THEN 7 ELSE 3)
  ELSE IF StartsAt(s, i, Fence) /\ AtLineEnd(s, i + 3) THEN 3 ELSE 0

\* The matches are found scanning from the left, each search resuming just
\* after the previous match; everything between the matches is kept.
RECURSIVE re_sub_from(_, _)
re_sub_from(s, i) ==
  LET hits == {j \in i..Len(s) : FenceMatchLen(s, j) > 0}
  IN  IF hits = {} THEN SubSeq(s, i, Len(s))
      ELSE LET j == MinOf(hits)
           IN  SubSeq(s, i, j - 1) \o re_sub_from(s, j + FenceMatchLen(s, j))

\* re.sub(r"^BT{3}(?:json)?|BT{3}$", "", s, flags=re.MULTILINE)
re_sub(s) == re_sub_from(s, 1)

\* cleaned_text of extract_knowledge_triples, from the model's reply text.
CleanReply(text) == strip(re_sub(strip(text)))

(***************************************************************************)
(* JSON values.  Every value is [t |-> tag, v |-> payload]; an object's    *)
(* payload is the sequence of its <<key, value>> pairs in insertion order. *)
(***************************************************************************)
JNull     == [t |-> "null", v |-> <<>>]
JBool(b)  == [t |-> "bool", v |-> b]
JNum(n)   == [t |-> "number", v |-> n]
JStr(s)   == [t |-> "string", v |-> s]
JArr(xs)  == [t |-> "array", v |-> xs]
JObj(kvs) == [t |-> "object", v |-> kvs]

\* dict[key] = val: a repeated key keeps its place and takes the new value.
DictSet(kvs, key, val) ==
  IF \E i \in 1..Len(kvs) : kvs[i][1] = key
  THEN [i \in 1..Len(kvs) |-> IF kvs[i][1] = key THEN <<key, val>> ELSE kvs[i]]
  ELSE Append(kvs, <<key, val>>)

\* dict.get(key): the value, or None.
DictGet(d, key) ==
  IF \E i \in 1..Len(d.v) : d.v[i][1] = key
  THEN d.v[CHOOSE i \in 1..Len(d.v) : d.v[i][1] = key][2]
  ELSE JNull

\* "is not None" in place of truthiness (mutant of Truthy).
TruthyNotNone(x) == x.t # "null"

\* Python truthiness of a parsed value.
Truthy(x) ==
  CASE x.t = "null"   -> FALSE
    [] x.t = "bool"   -> x.v
    [] x.t = "number" -> x.v # 0
    [] x.t = "string" -> Len(x.v) > 0
    [] x.t = "array"  -> Len(x.v) > 0
    [] x.t = "object" -> Len(x.v) > 0

(***************************************************************************)
(* json.loads, for the JSON subset over the model's alphabet: arrays,      *)
(* objects, strings without escapes, non-negative integers, null, true and *)
(* false.                                                                  *)
(***************************************************************************)
ParseFail == [ok |-> FALSE, val |-> JNull, pos |-> 0]
ParseOk(val, pos) == [ok |-> TRUE, val |-> val, pos |-> pos]

RECURSIVE SkipWs(_, _)
SkipWs(s, i) == IF i <= Len(s) /\ IsWs(s[i]) THEN SkipWs(s, i + 1) ELSE i

\* The string whose opening quote is just before position i: it runs to the
\* next quote, and holds no control character.
ScanString(s, i) ==
  LET quotes == {j \in i..Len(s) : s[j] = Q}
  IN  IF quotes = {} THEN ParseFail
      ELSE LET j == MinOf(quotes)
           IN  IF \E k \in i..(j - 1) : s[k] = NL THEN ParseFail
               ELSE ParseOk(JStr(SubSeq(s, i, j - 1)), j + 1)

RECURSIVE ScanDigits(_, _, _)
ScanDigits(s, i, n) ==
  IF i <= Len(s) /\ s[i] \in Digits
  THEN ScanDigits(s, i + 1, 10 * n + DigitVal(s[i]))
  ELSE ParseOk(JNum(n), i)

\* An integer: 0, or a non-zero digit followed by digits.
ScanNumber(s, i) ==
  IF s[i] = "0" THEN ParseOk(JNum(0), i + 1) ELSE ScanDigits(s, i, 0)

NullLit  == <<"n", "u", "l", "l">>
TrueLit  == <<"t", "r", "u", "e">>
FalseLit == <<"f", "a", "l", "s", "e">>

RECURSIVE ParseValue(_, _)
RECURSIVE ParseElems(_, _, _)
RECURSIVE ParseMembers(_, _, _)

ParseValue(s, i) ==
  IF i > Len(s) THEN ParseFail
  ELSE IF s[i] = Q THEN ScanString(s, i + 1)
  ELSE IF s[i] = "[" THEN
    LET j == SkipWs(s, i + 1)
    IN  IF j <= Len(s) /\ s[j] = "]" THEN ParseOk(JArr(<<>>), j + 1)
        ELSE ParseElems(s, j, <<>>)
  ELSE IF s[i] = "{" THEN
    LET j == SkipWs(s, i + 1)
    IN  IF j <= Len(s) /\ s[j] = "}" THEN ParseOk(JObj(<<>>), j + 1)
        ELSE ParseMembers(s, j, <<>>)
  ELSE IF s[i] \in Digits THEN ScanNumber(s, i)
  ELSE IF StartsAt(s, i, NullLit) THEN ParseOk(JNull, i + 4)
  ELSE IF StartsAt(s, i, TrueLit) THEN ParseOk(JBool(TRUE), i + 4)
  ELSE IF StartsAt(s, i, FalseLit) THEN ParseOk(JBool(FALSE), i + 5)
  ELSE ParseFail

\* The elements of an array from position i on, up to its closing bracket.
ParseElems(s, i, acc) ==
  LET e == ParseValue(s, i)
  IN  IF ~e.ok THEN ParseFail
      ELSE LET j == SkipWs(s, e.pos)
           IN  IF j > Len(s) THEN ParseFail
               ELSE IF s[j] = "]" THEN ParseOk(JArr(Append(acc, e.val)), j + 1)
               ELSE IF s[j] = "," THEN
                 ParseElems(s, SkipWs(s, j + 1), Append(acc, e.val))
               ELSE ParseFail

\* The members of an object from position i on, up to its closing brace.
ParseMembers(s, i, acc) ==
  IF i > Len(s) \/ s[i] # Q THEN ParseFail
  ELSE LET k == ScanString(s, i + 1)
       IN  IF ~k.ok THEN ParseFail
           ELSE LET c == SkipWs(s, k.pos)
                IN  IF c > Len(s) \/ s[c] # ":" THEN ParseFail
                    ELSE LET e == ParseValue(s, SkipWs(s, c + 1))
                         IN  IF ~e.ok THEN ParseFail
                             ELSE LET j   == SkipWs(s, e.pos)
                                      nxt == DictSet(acc, k.val.v, e.val)
                                  IN  IF j > Len(s) THEN ParseFail
                                      ELSE IF s[j] = "}" THEN ParseOk(JObj(nxt), j + 1)
                                      ELSE IF s[j] = "," THEN
                                        ParseMembers(s, SkipWs(s, j + 1), nxt)
                                      ELSE ParseFail

\* json.loads(s): ok (with the value), or a JSONDecodeError (ok = FALSE).
json_loads(s) ==
  LET e == ParseValue(s, SkipWs(s, 1))
  IN  IF ~e.ok THEN [ok |-> FALSE, val |-> JNull]
      ELSE IF SkipWs(s, e.pos) # Len(s) + 1 THEN [ok |-> FALSE, val |-> JNull]
      ELSE [ok |-> TRUE, val |-> e.val]

\* The parse without its except clause (mutant of TryLoads).
TryLoadsNoCatch(cleaned) ==
  LET r == json_loads(cleaned)
  IN  IF r.ok THEN [raised |-> FALSE, val |-> r.val]
      ELSE [raised |-> TRUE, val |-> JArr(<<>>)]

\* The try/except around json.loads: the parsed value, or [] when json.loads
\* raises JSONDecodeError (which is caught, so nothing is raised).
TryLoads(cleaned) ==
  LET r == json_loads(cleaned)
  IN  IF r.ok THEN [raised |-> FALSE, val |-> r.val]
      ELSE [raised |-> FALSE, val |-> JArr(<<>>)]

\* What extract_knowledge_triples does with the reply text of the service.
ParseTriples(text) == TryLoads(CleanReply(text))

(***************************************************************************)
(* Reply texts of the language-model service (response.text).  A reply is  *)
(* a body wrapped in one of several ways; ReplyIds enumerates them.        *)
(***************************************************************************)
Subject   == <<"s", "u", "b", "j", "e", "c", "t">>
Predicate == <<"p", "r", "e", "d", "i", "c", "a", "t", "e">>
Object    == <<"o", "b", "j", "e", "c", "t">>

Lit(s) == <<Q>> \o s \o <<Q>>
Member(k, valText) == Lit(k) \o <<":">> \o valText
TripleText(s, p, o) ==
  <<"{">> \o Member(Subject, s) \o <<",">> \o Member(Predicate, p)
          \o <<",">> \o Member(Object, o) \o <<"}">>
TripleVal(s, p, o) ==
  JObj(<< <<Subject, s>>, <<Predicate, p>>, <<Object, o>> >>)

A == <<"A">>
B == <<"B">>
P == <<"p">>
R == <<"r">>

ApB == TripleText(Lit(A), Lit(P), Lit(B))
BrA == TripleText(Lit(B), Lit(R), Lit(A))
ArB == TripleText(Lit(A), Lit(R), Lit(B))

\* Bodies that are well-formed JSON arrays, with the value each denotes.
ArrayBodies == {"one", "two", "collide", "multiline", "ticks", "empty",
                "noobject", "emptyfield", "mixed", "nonobj", "numfield",
                "listfield"}

BodyText(b) ==
  CASE b = "one"        -> <<"[">> \o ApB \o <<"]">>
    [] b = "two"        -> <<"[">> \o ApB \o <<",", SP>> \o BrA \o <<"]">>
    [] b = "collide"    -> <<"[">> \o ApB \o <<",">> \o ArB \o <<"]">>
    [] b = "multiline"  -> <<"[", NL>> \o BrA \o <<NL, "]">>
    [] b = "ticks"      -> <<"[">> \o TripleText(Lit(Fence), Lit(P), Lit(B)) \o <<"]">>
    [] b = "empty"      -> <<"[", "]">>
    [] b = "noobject"   -> <<"[", "{">> \o Member(Subject, Lit(A)) \o <<",">>
                             \o Member(Predicate, Lit(P)) \o <<"}", "]">>
    [] b = "emptyfield" -> <<"[">> \o TripleText(Lit(A), Lit(<<>>), Lit(B)) \o <<"]">>
    [] b = "mixed"      -> <<"[">> \o TripleText(Lit(A), Lit(P), NullLit)
                             \o <<",">> \o BrA \o <<"]">>
    [] b = "nonobj"     -> <<"[", "1", ",", Q, "A", Q, "]">>
    [] b = "numfield"   -> <<"[">> \o TripleText(<<"7">>, Lit(P), Lit(B)) \o <<"]">>
    [] b = "listfield"  -> <<"[">> \o TripleText(<<"[", Q, "A", Q, "]">>, Lit(P), Lit(B))
                             \o <<"]">>
    \* valid JSON that is not an array
    [] b = "object"     -> ApB
    [] b = "emptyobj"   -> <<"{", "}">>
    [] b = "number"     -> <<"4", "2">>
    [] b = "zero"       -> <<"0">>
    [] b = "string"     -> Lit(A)
    [] b = "null"       -> NullLit
    \* not JSON
    [] b = "prose"      -> <<"N", "o", SP, "t", "r", "i", "p", "l", "e", "s", ".">>
    [] b = "truncated"  -> <<"[", "{">> \o Member(Subject, Lit(A))
    [] b = "trailing"   -> <<"[">> \o ApB \o <<",", "]">>
    [] b = "extra"      -> <<"[">> \o ApB \o <<"]", SP, "o", "k">>
    [] b = "blank"      -> <<SP, NL>>

BodyValue(b) ==
  CASE b = "one"        -> JArr(<<TripleVal(JStr(A), JStr(P), JStr(B))>>)
    [] b = "two"        -> JArr(<<TripleVal(JStr(A), JStr(P), JStr(B)),
                                  TripleVal(JStr(B), JStr(R), JStr(A))>>)
    [] b = "collide"    -> JArr(<<TripleVal(JStr(A), JStr(P), JStr(B)),
                                  TripleVal(JStr(A), JStr(R), JStr(B))>>)
    [] b = "multiline"  -> JArr(<<TripleVal(JStr(B), JStr(R), JStr(A))>>)
    [] b = "ticks"      -> JArr(<<TripleVal(JStr(Fence), JStr(P), JStr(B))>>)
    [] b = "empty"      -> JArr(<<>>)
    [] b = "noobject"   -> JArr(<<JObj(<< <<Subject, JStr(A)>>, <<Predicate, JStr(P)>> >>)>>)
    [] b = "emptyfield" -> JArr(<<TripleVal(JStr(A), JStr(<<>>), JStr(B))>>)
    [] b = "mixed"      -> JArr(<<TripleVal(JStr(A), JStr(P), JNull),
                                  TripleVal(JStr(B), JStr(R), JStr(A))>>)
    [] b = "nonobj"     -> JArr(<<JNum(1), JStr(A)>>)
    [] b = "numfield"   -> JArr(<<TripleVal(JNum(7), JStr(P), JStr(B))>>)
    [] b = "listfield"  -> JArr(<<TripleVal(JArr(<<JStr(A)>>), JStr(P), JStr(B))>>)

OtherBodies == {"object", "emptyobj", "number", "zero", "string", "null",
                "prose", "truncated", "trailing", "extra", "blank"}
Bodies == ArrayBodies \cup OtherBodies

\* Wrappers around a body.  The first three after "none" are code fences: an
\* opening fence line with an optional json tag, and a closing fence line.
FenceWraps == {"json", "plain", "padded"}
Wraps == {"none"} \cup FenceWraps \cup {"open", "close", "inline", "js", "prefixed"}

Wrap(w, j) ==
  CASE w = "none"     -> j
    [] w = "json"     -> Fence \o JsonTag \o <<NL>> \o j \o <<NL>> \o Fence
    [] w = "plain"    -> Fence \o <<NL>> \o j \o <<NL>> \o Fence
    [] w = "padded"   -> <<SP, NL>> \o Fence \o JsonTag \o <<SP, NL>> \o j
                           \o <<NL>> \o Fence \o <<NL, SP>>
    [] w = "open"     -> Fence \o JsonTag \o <<NL>> \o j
    [] w = "close"    -> j \o <<NL>> \o Fence
    [] w = "inline"   -> Fence \o JsonTag \o j \o Fence
    [] w = "js"       -> Fence \o <<"j", "s", NL>> \o j \o <<NL>> \o Fence
    [] w = "prefixed" -> <<"H", "e", "r", "e", ":", NL>> \o Fence \o JsonTag \o <<NL>>
                           \o j \o <<NL>> \o Fence

ReplyIds == [body : Bodies, wrap : Wraps]
ReplyText(id) == Wrap(id.wrap, BodyText(id.body))

\* The replies the upload pipeline is run on: every class of reply.
PipelineReplies ==
  {[body |-> "one", wrap |-> "none"], [body |-> "two", wrap |-> "json"],
   [body |-> "noobject", wrap |-> "none"], [body |-> "emptyfield", wrap |-> "plain"],
   [body |-> "nonobj", wrap |-> "none"], [body |-> "listfield", wrap |-> "none"],
   [body |-> "object", wrap |-> "none"], [body |-> "string", wrap |-> "none"],
   [body |-> "number", wrap |-> "none"],
   [body |-> "empty", wrap |-> "none"], [body |-> "null", wrap |-> "none"],
   [body |-> "prose", wrap |-> "none"], [body |-> "truncated", wrap |-> "json"],
   [body |-> "one", wrap |-> "js"]}

TriplesOf == [id \in PipelineReplies |-> ParseTriples(ReplyText(id))]

(***************************************************************************)
(* build_and_save_graph: the graph (networkx.DiGraph).  Its adjacency is   *)
(* kept as the set of its entries [u, v, label], one per (u, v).           *)
(***************************************************************************)
EmptyGraph == [nodes |-> {}, edges |-> {}]

\* Lists and dicts cannot be graph nodes (they are unhashable).
Hashable(x) == x.t \notin {"array", "object"}

\* An edge that is there keeps its first label (mutant of add_edge).
add_edge_keep_first(g, u, v, label) ==
  [nodes |-> g.nodes \cup {u, v},
   edges |-> IF \E e \in g.edges : e.u = u /\ e.v = v THEN g.edges
             ELSE g.edges \cup {[u |-> u, v |-> v, label |-> label]}]

\* G.add_edge(u, v, label=label): both ends become nodes, and the entry for
\* (u, v) is created or, when it is there, has its label overwritten.
add_edge(g, u, v, label) ==
  [nodes |-> g.nodes \cup {u, v},
   edges |-> {e \in g.edges : ~(e.u = u /\ e.v = v)}
               \cup {[u |-> u, v |-> v, label |-> label]}]

\* The predicate is not looked at (mutant of AllTruthy).
AllTruthyNoPred(subj, pred, obj) == Truthy(subj) /\ Truthy(obj)

\* The three fields of a triple are all truthy.
AllTruthy(subj, pred, obj) == Truthy(subj) /\ Truthy(pred) /\ Truthy(obj)

\* One iteration of the loop over the triples.  A triple that is no dict has
\* no .get (AttributeError); an unhashable end raises TypeError in add_edge.
LoopBody(g, triple) ==
  IF triple.t # "object" THEN [raised |-> TRUE, G |-> g]
  ELSE LET subj == DictGet(triple, Subject)
           pred == DictGet(triple, Predicate)
           obj  == DictGet(triple, Object)
       IN  IF AllTruthy(subj, pred, obj)
           THEN IF Hashable(subj) /\ Hashable(obj)
                THEN [raised |-> FALSE, G |-> add_edge(g, subj, obj, pred)]
                ELSE [raised |-> TRUE, G |-> g]
           ELSE [raised |-> FALSE, G |-> g]

\* What "for triple in triples" iterates over: the elements of a list, the
\* characters of a string, the keys of a dict; a number or a bool is not
\* iterable (TypeError).
Iterable(x) == x.t \in {"array", "string", "object"}
Items(x) ==
  CASE x.t = "array"  -> x.v
    [] x.t = "string" -> [i \in 1..Len(x.v) |-> JStr(<<x.v[i]>>)]
    [] x.t = "object" -> [i \in 1..Len(x.v) |-> JStr(x.v[i][1])]

RECURSIVE BuildLoop(_, _, _)
BuildLoop(items, i, g) ==
  IF i > Len(items) THEN [raised |-> FALSE, G |-> g]
  ELSE LET step == LoopBody(g, items[i])
       IN  IF step.raised THEN step ELSE BuildLoop(items, i + 1, step.G)

\* Lines 65-71 of build_and_save_graph, for any value of triples.
BuildGraphOf(x) ==
  IF ~Iterable(x) THEN [raised |-> TRUE, G |-> EmptyGraph]
  ELSE BuildLoop(Items(x), 1, EmptyGraph)

(***************************************************************************)
(* State                                                                   *)
(***************************************************************************)
\* Concurrent upload requests (handling contexts of the threaded server).
NumRequests == 2
Requests == 1..NumRequests

\* Longest triple list given to the graph builder on its own.
MaxTriples == 3

VARIABLES
  \* -- upload_pdf, per request --
  pc,                \* where the handler of the request is
  pdf_file,          \* request.files.get('pdf')
  reply,             \* the reply of the language-model service (a ReplyIds)
  triples,           \* triples = extract_knowledge_triples(text)
  G,                 \* the DiGraph of build_and_save_graph
  response,          \* what the request answered
  stages,            \* history: the pipeline stages the request entered
  written,           \* history: names the request wrote in GENERATED_FOLDER
  foreign,           \* history: the request acted on a figure it did not create
  \* -- process-wide --
  UPLOAD_FOLDER,     \* names of the files in uploads/
  GENERATED_FOLDER,  \* the files in generated/: [name, artists, title]
  Gcf,               \* pyplot's open figures, the current (active) one last
  \* -- extract_knowledge_triples on its own, step by step --
  x_pc, x_reply, raw_text, cleaned_text, x_result,
  \* -- the loop of build_and_save_graph on its own --
  g_triples,         \* the triples iterated over so far
  g_G,               \* the DiGraph after them
  g_raised           \* an iteration raised

vars_p == <<pc, pdf_file, reply, triples, G, response, stages, written, foreign,
            UPLOAD_FOLDER, GENERATED_FOLDER, Gcf>>
vars_x == <<x_pc, x_reply, raw_text, cleaned_text, x_result>>
vars_g == <<g_triples, g_G, g_raised>>
vars == <<vars_p, vars_x, vars_g>>

Unset == [t |-> "unset", v |-> <<>>]
NoReply == [body |-> "", wrap |-> ""]
NoName == <<"none", 0>>

\* uuid4().hex names: one per request and kind, never repeated.
PdfName(r) == <<"pdf", r>>
ImageName(r) == <<"png", r>>

NoResponse == [status |-> 0, key |-> "", value |-> "", file |-> NoName]
Resp400 == [status |-> 400, key |-> "error", value |-> "No PDF file uploaded",
            file |-> NoName]
Resp500 == [status |-> 500, key |-> "error",
            value |-> "No triples extracted from PDF", file |-> NoName]
Resp200(name) == [status |-> 200, key |-> "image_url", value |-> "/generated/",
                  file |-> name]
\* An exception nobody catches: the server's own, unstructured error page.
Unhandled == [status |-> 500, key |-> "", value |-> "Internal Server Error",
              file |-> NoName]

Init ==
  /\ pc = [r \in Requests |-> "start"]
  /\ pdf_file = [r \in Requests |-> "unread"]
  /\ reply = [r \in Requests |-> NoReply]
  /\ triples = [r \in Requests |-> Unset]
  /\ G = [r \in Requests |-> EmptyGraph]
  /\ response = [r \in Requests |-> NoResponse]
  /\ stages = [r \in Requests |-> <<>>]
  /\ written = [r \in Requests |-> <<>>]
  /\ foreign = [r \in Requests |-> FALSE]
  /\ UPLOAD_FOLDER = {}
  /\ GENERATED_FOLDER = {}
  /\ Gcf = <<>>
  /\ x_pc = "call"
  /\ x_reply = NoReply
  /\ raw_text = <<>>
  /\ cleaned_text = <<>>
  /\ x_result = [raised |-> FALSE, val |-> Unset]
  /\ g_triples = <<>>
  /\ g_G = EmptyGraph
  /\ g_raised = FALSE

(***************************************************************************)
(* upload_pdf                                                              *)
(***************************************************************************)
Enter(r, stage) == stages' = [stages EXCEPT ![r] = Append(@, stage)]
Goto(r, l) == pc' = [pc EXCEPT ![r] = l]
Raise(r) ==
  /\ pc' = [pc EXCEPT ![r] = "failed"]
  /\ response' = [response EXCEPT ![r] = Unhandled]

\* The upload is saved before it is looked at (mutant of NoFile).
NoFileAfterSave(r) ==
  /\ pc[r] = "start"
  /\ \E f \in {"absent", "emptyname"} : pdf_file' = [pdf_file EXCEPT ![r] = f]
  /\ UPLOAD_FOLDER' = UPLOAD_FOLDER \cup {PdfName(r)}
  /\ response' = [response EXCEPT ![r] = Resp400]
  /\ Enter(r, "respond")
  /\ Goto(r, "done")
  /\ UNCHANGED <<reply, triples, G, written, foreign,
                 GENERATED_FOLDER, Gcf, vars_x, vars_g>>

\* Lines 139-141: no file under 'pdf', or one with an empty filename (falsy).
NoFile(r) ==
  /\ pc[r] = "start"
  /\ \E f \in {"absent", "emptyname"} : pdf_file' = [pdf_file EXCEPT ![r] = f]
  /\ response' = [response EXCEPT ![r] = Resp400]
  /\ Enter(r, "respond")
  /\ Goto(r, "done")
  /\ UNCHANGED <<reply, triples, G, written, foreign, UPLOAD_FOLDER,
                 GENERATED_FOLDER, Gcf, vars_x, vars_g>>

\* Lines 139-145: a file is there, and is saved under a fresh name.
SaveUpload(r) ==
  /\ pc[r] = "start"
  /\ \E f \in {"pdf", "corrupt"} : pdf_file' = [pdf_file EXCEPT ![r] = f]
  /\ UPLOAD_FOLDER' = UPLOAD_FOLDER \cup {PdfName(r)}
  /\ Enter(r, "persist")
  /\ Goto(r, "saved")
  /\ UNCHANGED <<reply, triples, G, response, written, foreign,
                 GENERATED_FOLDER, Gcf, vars_x, vars_g>>

\* Line 147, extract_text_from_pdf: fitz.open raises on what is no document.
ExtractText(r) ==
  /\ pc[r] = "saved"
  /\ Enter(r, "extract_text")
  /\ IF pdf_file[r] = "corrupt"
     THEN Raise(r)
     ELSE Goto(r, "text") /\ UNCHANGED response
  /\ UNCHANGED <<pdf_file, reply, triples, G, written, foreign, UPLOAD_FOLDER,
                 GENERATED_FOLDER, Gcf, vars_x, vars_g>>

\* Line 148, extract_knowledge_triples: the service replies, the reply is
\* cleaned and parsed (lines 50-61).
ExtractTriples(r) ==
  /\ pc[r] = "text"
  /\ Enter(r, "call_model")
  /\ \E id \in PipelineReplies :
       /\ reply' = [reply EXCEPT ![r] = id]
       /\ IF TriplesOf[id].raised
          THEN Raise(r) /\ UNCHANGED triples
          ELSE /\ triples' = [triples EXCEPT ![r] = TriplesOf[id].val]
               /\ Goto(r, "extracted")
               /\ UNCHANGED response
  /\ UNCHANGED <<pdf_file, G, written, foreign, UPLOAD_FOLDER,
                 GENERATED_FOLDER, Gcf, vars_x, vars_g>>

\* Line 51: the call to the service raises (network, quota, blocked reply).
ModelServiceFails(r) ==
  /\ pc[r] = "text"
  /\ Enter(r, "call_model")
  /\ Raise(r)
  /\ UNCHANGED <<pdf_file, reply, triples, G, written, foreign, UPLOAD_FOLDER,
                 GENERATED_FOLDER, Gcf, vars_x, vars_g>>

\* An empty result asks the service again (mutant of EmptyCheck).
EmptyCheckRetry(r) ==
  /\ pc[r] = "extracted"
  /\ Enter(r, "empty_check")
  /\ IF ~Truthy(triples[r]) THEN Goto(r, "text") ELSE Goto(r, "build")
  /\ UNCHANGED <<pdf_file, reply, triples, G, response, written, foreign,
                 UPLOAD_FOLDER, GENERATED_FOLDER, Gcf, vars_x, vars_g>>

\* Lines 150-154: "if not triples" answers 500; otherwise the image is named.
EmptyCheck(r) ==
  /\ pc[r] = "extracted"
  /\ IF ~Truthy(triples[r])
     THEN /\ response' = [response EXCEPT ![r] = Resp500]
          /\ stages' = [stages EXCEPT ![r] = @ \o <<"empty_check", "respond">>]
          /\ Goto(r, "done")
     ELSE /\ Enter(r, "empty_check")
          /\ Goto(r, "build")
          /\ UNCHANGED response
  /\ UNCHANGED <<pdf_file, reply, triples, G, written, foreign, UPLOAD_FOLDER,
                 GENERATED_FOLDER, Gcf, vars_x, vars_g>>

\* Lines 65-73 of build_and_save_graph, as the first of its steps: the
\* graph and its layout.
BuildGraph(r) ==
  /\ pc[r] = "build"
  /\ Enter(r, "build_render")
  /\ LET b == BuildGraphOf(triples[r])
     IN  IF b.raised
         THEN Raise(r) /\ UNCHANGED G
         ELSE /\ G' = [G EXCEPT ![r] = b.G]
              /\ Goto(r, "figure")
              /\ UNCHANGED response
  /\ UNCHANGED <<pdf_file, reply, triples, written, foreign, UPLOAD_FOLDER,
                 GENERATED_FOLDER, Gcf, vars_x, vars_g>>

(***************************************************************************)
(* Lines 74-80: drawing through matplotlib.pyplot, whose open figures and  *)
(* current figure are process-wide state (Gcf).  A figure is               *)
(* [owner, implicit, artists, title]: owner is the request whose call      *)
(* created it, implicit tells a figure created by gcf() for want of any.   *)
(***************************************************************************)
NewFigure(r, implicit) ==
  [owner |-> r, implicit |-> implicit, artists |-> {}, title |-> FALSE]

\* plt.gcf() / plt.gca(): the open figures afterwards, the current one last;
\* a figure is created when none is open.
Current(fs, r) == IF fs = <<>> THEN <<NewFigure(r, TRUE)>> ELSE fs

\* The figure is the one request r created with plt.figure().
Own(fig, r) == fig.owner = r /\ ~fig.implicit

NodeArtists(g, r) ==
  {[kind |-> "node", item |-> <<n, JNull, JNull>>, by |-> r] : n \in g.nodes}
EdgeArtists(g, r) ==
  {[kind |-> "edge", item |-> <<e.u, e.v, JNull>>, by |-> r] : e \in g.edges}
LabelArtists(g, r) ==
  {[kind |-> "label", item |-> <<e.u, e.v, e.label>>, by |-> r] : e \in g.edges}

\* plt.figure(figsize=(8, 8)), called by r: a new figure, made current.
FigureOp(fs, r) == Append(fs, NewFigure(r, FALSE))

\* Artists added to the current figure by a call of r.
DrawOn(fs, r, artists) ==
  LET cur == Current(fs, r)
  IN  [cur EXCEPT ![Len(cur)].artists = @ \cup artists]

\* plt.title(...), called by r: the title of the current axes.
TitleOp(fs, r) ==
  LET cur == Current(fs, r)
  IN  [cur EXCEPT ![Len(cur)].title = TRUE]

\* The file plt.savefig(image_path) writes for r: the current figure.
ImageOf(fs, r) ==
  LET cur == Current(fs, r)
      fig == cur[Len(cur)]
  IN  [name |-> ImageName(r), artists |-> fig.artists, title |-> fig.title]

\* Writing a file under a name replaces the file of that name.
WriteFile(dir, file) == {f \in dir : f.name # file.name} \cup {file}

\* plt.close(): the current figure is closed, if there is one.
CloseOp(fs) == IF fs = <<>> THEN fs ELSE SubSeq(fs, 1, Len(fs) - 1)

\* The call of r acts on a figure that r did not create with plt.figure().
ActsOnForeign(fs, r) ==
  LET cur == Current(fs, r)
  IN  ~Own(cur[Len(cur)], r)

\* Line 74, plt.figure(figsize=(8, 8)).
PltFigure(r) ==
  /\ pc[r] = "figure"
  /\ Gcf' = FigureOp(Gcf, r)
  /\ Goto(r, "draw")
  /\ UNCHANGED <<pdf_file, reply, triples, G, response, stages, written, foreign,
                 UPLOAD_FOLDER, GENERATED_FOLDER, vars_x, vars_g>>

\* Line 75, nx.draw(G, pos, ...): nodes, node labels and edges, drawn on the
\* current figure.
NxDraw(r) ==
  /\ pc[r] = "draw"
  /\ Gcf' = DrawOn(Gcf, r, NodeArtists(G[r], r) \cup EdgeArtists(G[r], r))
  /\ foreign' = [foreign EXCEPT ![r] = @ \/ ActsOnForeign(Gcf, r)]
  /\ Goto(r, "labels")
  /\ UNCHANGED <<pdf_file, reply, triples, G, response, stages, written,
                 UPLOAD_FOLDER, GENERATED_FOLDER, vars_x, vars_g>>

\* Line 75: drawing fails (no error path is defined for rendering).
DrawFails(r) ==
  /\ pc[r] = "draw"
  /\ Raise(r)
  /\ UNCHANGED <<pdf_file, reply, triples, G, stages, written, foreign,
                 UPLOAD_FOLDER, GENERATED_FOLDER, Gcf, vars_x, vars_g>>

\* Lines 76-77, nx.draw_networkx_edge_labels: on the current axes.
DrawEdgeLabels(r) ==
  /\ pc[r] = "labels"
  /\ Gcf' = DrawOn(Gcf, r, LabelArtists(G[r], r))
  /\ foreign' = [foreign EXCEPT ![r] = @ \/ ActsOnForeign(Gcf, r)]
  /\ Goto(r, "title")
  /\ UNCHANGED <<pdf_file, reply, triples, G, response, stages, written,
                 UPLOAD_FOLDER, GENERATED_FOLDER, vars_x, vars_g>>

\* Line 78, plt.title(...).
PltTitle(r) ==
  /\ pc[r] = "title"
  /\ Gcf' = TitleOp(Gcf, r)
  /\ foreign' = [foreign EXCEPT ![r] = @ \/ ActsOnForeign(Gcf, r)]
  /\ Goto(r, "save")
  /\ UNCHANGED <<pdf_file, reply, triples, G, response, stages, written,
                 UPLOAD_FOLDER, GENERATED_FOLDER, vars_x, vars_g>>

\* Line 79, plt.savefig(image_path): the current figure, written to the path.
SaveFig(r) ==
  /\ pc[r] = "save"
  /\ Gcf' = Current(Gcf, r)
  /\ GENERATED_FOLDER' = WriteFile(GENERATED_FOLDER, ImageOf(Gcf, r))
  /\ foreign' = [foreign EXCEPT ![r] = @ \/ ActsOnForeign(Gcf, r)]
  /\ written' = [written EXCEPT ![r] = Append(@, ImageName(r))]
  /\ Goto(r, "close")
  /\ UNCHANGED <<pdf_file, reply, triples, G, response, stages,
                 UPLOAD_FOLDER, vars_x, vars_g>>

\* Line 80, plt.close().
PltClose(r) ==
  /\ pc[r] = "close"
  /\ Gcf' = CloseOp(Gcf)
  /\ foreign' = [foreign EXCEPT ![r] = @ \/ (Gcf # <<>> /\ ActsOnForeign(Gcf, r))]
  /\ Goto(r, "respond")
  /\ UNCHANGED <<pdf_file, reply, triples, G, response, stages, written,
                 UPLOAD_FOLDER, GENERATED_FOLDER, vars_x, vars_g>>

\* Line 155, build_and_save_graph(triples, image_path) as one step of the
\* handler: lines 65-80 with no other request's call in between.
BuildAndSaveGraph(r) ==
  /\ pc[r] = "build"
  /\ Enter(r, "build_render")
  /\ LET b  == BuildGraphOf(triples[r])
         f1 == FigureOp(Gcf, r)
         f2 == DrawOn(f1, r, NodeArtists(b.G, r) \cup EdgeArtists(b.G, r))
         f3 == DrawOn(f2, r, LabelArtists(b.G, r))
         f4 == TitleOp(f3, r)
     IN  IF b.raised
         THEN Raise(r) /\ UNCHANGED <<G, Gcf, GENERATED_FOLDER, written>>
         ELSE /\ G' = [G EXCEPT ![r] = b.G]
              /\ GENERATED_FOLDER' = WriteFile(GENERATED_FOLDER, ImageOf(f4, r))
              /\ written' = [written EXCEPT ![r] = Append(@, ImageName(r))]
              /\ Gcf' = CloseOp(f4)
              /\ Goto(r, "respond")
              /\ UNCHANGED response
  /\ UNCHANGED <<pdf_file, reply, triples, foreign, UPLOAD_FOLDER, vars_x, vars_g>>

\* Line 155: drawing fails inside build_and_save_graph, before the image is
\* written; the figure stays open.
RenderFails(r) ==
  /\ pc[r] = "build"
  /\ Enter(r, "build_render")
  /\ ~BuildGraphOf(triples[r]).raised
  /\ Gcf' = FigureOp(Gcf, r)
  /\ Raise(r)
  /\ UNCHANGED <<pdf_file, reply, triples, G, written, foreign, UPLOAD_FOLDER,
                 GENERATED_FOLDER, vars_x, vars_g>>

\* The answer names a second generated name (mutant of Respond).
RespondOtherName(r) ==
  /\ pc[r] = "respond"
  /\ response' = [response EXCEPT ![r] = Resp200(<<"png", r + NumRequests>>)]
  /\ Enter(r, "respond")
  /\ Goto(r, "done")
  /\ UNCHANGED <<pdf_file, reply, triples, G, written, foreign, UPLOAD_FOLDER,
                 GENERATED_FOLDER, Gcf, vars_x, vars_g>>

\* Line 157: the answer names the image.
Respond(r) ==
  /\ pc[r] = "respond"
  /\ response' = [response EXCEPT ![r] = Resp200(ImageName(r))]
  /\ Enter(r, "respond")
  /\ Goto(r, "done")
  /\ UNCHANGED <<pdf_file, reply, triples, G, written, foreign, UPLOAD_FOLDER,
                 GENERATED_FOLDER, Gcf, vars_x, vars_g>>

\* The upload requests, each stage of the handler one step; requests overlap
\* between stages.
Next ==
  \E r \in Requests :
    \/ NoFile(r)
    \/ SaveUpload(r)
    \/ ExtractText(r)
    \/ ExtractTriples(r)
    \/ ModelServiceFails(r)
    \/ EmptyCheck(r)
    \/ BuildAndSaveGraph(r)
    \/ RenderFails(r)
    \/ Respond(r)

Spec == Init /\ [][Next]_vars

\* The same requests on the threads of the development server (app.run runs
\* it threaded): inside build_and_save_graph every pyplot call is a step, and
\* the calls of two requests interleave.
NextThreads ==
  \E r \in Requests :
    \/ NoFile(r)
    \/ SaveUpload(r)
    \/ ExtractText(r)
    \/ ExtractTriples(r)
    \/ ModelServiceFails(r)
    \/ EmptyCheck(r)
    \/ BuildGraph(r)
    \/ PltFigure(r)
    \/ NxDraw(r)
    \/ DrawFails(r)
    \/ DrawEdgeLabels(r)
    \/ PltTitle(r)
    \/ SaveFig(r)
    \/ PltClose(r)
    \/ Respond(r)

SpecThreads == Init /\ [][NextThreads]_vars

(***************************************************************************)
(* extract_knowledge_triples, step by step, on every reply of ReplyIds.    *)
(***************************************************************************)
\* Lines 51-52: raw_text = response.text.strip()
XCall ==
  /\ x_pc = "call"
  /\ \E id \in ReplyIds :
       /\ x_reply' = id
       /\ raw_text' = strip(ReplyText(id))
  /\ x_pc' = "clean"
  /\ UNCHANGED <<cleaned_text, x_result, vars_p, vars_g>>

\* Line 53: cleaned_text = re.sub(...).strip()
XClean ==
  /\ x_pc = "clean"
  /\ cleaned_text' = strip(re_sub(raw_text))
  /\ x_pc' = "loads"
  /\ UNCHANGED <<x_reply, raw_text, x_result, vars_p, vars_g>>

\* Lines 55-61: json.loads, or [] on JSONDecodeError.
XLoads ==
  /\ x_pc = "loads"
  /\ x_result' = TryLoads(cleaned_text)
  /\ x_pc' = "done"
  /\ UNCHANGED <<x_reply, raw_text, cleaned_text, vars_p, vars_g>>

NextExtract == XCall \/ XClean \/ XLoads

SpecExtract == Init /\ [][NextExtract]_vars

(***************************************************************************)
(* The loop of build_and_save_graph (lines 66-71), one iteration at a      *)
(* time, over every list of up to MaxTriples triples of TripleDomain.      *)
(***************************************************************************)
Absent == [t |-> "absent", v |-> <<>>]

\* A triple dict; a field given as Absent has no key.
MkTriple(s, p, o) ==
  JObj(  (IF s = Absent THEN <<>> ELSE << <<Subject, s>> >>)
      \o (IF p = Absent THEN <<>> ELSE << <<Predicate, p>> >>)
      \o (IF o = Absent THEN <<>> ELSE << <<Object, o>> >>))

\* Every complete triple over two entities and two predicates, and triples
\* with a field that is missing, None or empty.
TripleDomain ==
  {MkTriple(s, p, o) : s \in {JStr(A), JStr(B)}, p \in {JStr(P), JStr(R)},
                       o \in {JStr(A), JStr(B)}}
  \cup {MkTriple(Absent, JStr(P), JStr(A)), MkTriple(JNull, JStr(P), JStr(B)),
        MkTriple(JStr(<<>>), JStr(R), JStr(B)),
        MkTriple(JStr(A), Absent, JStr(B)), MkTriple(JStr(A), JNull, JStr(A)),
        MkTriple(JStr(B), JStr(<<>>), JStr(A)),
        MkTriple(JStr(B), JStr(R), Absent), MkTriple(JStr(B), JStr(P), JNull),
        MkTriple(JStr(A), JStr(P), JStr(<<>>)),
        MkTriple(Absent, Absent, Absent)}

\* "for triple in triples": the next triple of the list, and the loop body.
GraphIter ==
  /\ ~g_raised
  /\ Len(g_triples) < MaxTriples
  /\ \E t \in TripleDomain :
       LET step == LoopBody(g_G, t)
       IN  /\ g_triples' = Append(g_triples, t)
           /\ g_G' = step.G
           /\ g_raised' = step.raised
  /\ UNCHANGED <<vars_p, vars_x>>

NextGraph == GraphIter

SpecGraph == Init /\ [][NextGraph]_vars

(***************************************************************************)
(* Properties                                                              *)
(***************************************************************************)
Range(f) == {f[i] : i \in DOMAIN f}
Terminal == {"done", "failed"}
IsEmptyList(x) == x.t = "array" /\ Len(x.v) = 0
NonEmptyString(x) == x.t = "string" /\ Len(x.v) > 0
ImagesOf(r) == {f \in GENERATED_FOLDER : f.name = ImageName(r)}

\* C1: a request whose extracted triples are the empty list answers 500 with
\* "No triples extracted from PDF", never enters the graph builder/renderer
\* and writes no file in the generated-output directory.
C1_EmptyTriplesAnswer500 ==
  \A r \in Requests :
    IsEmptyList(triples[r]) =>
      /\ "build_render" \notin Range(stages[r])
      /\ written[r] = <<>>
      /\ ImagesOf(r) = {}
      /\ pc[r] \in Terminal => response[r] = Resp500

C1_Witness ==
  \E r \in Requests :
    /\ pdf_file[r] = "pdf"
    /\ IsEmptyList(triples[r])
    /\ pc[r] = "done"
    /\ response[r] = Resp500

\* C2: a request without a file under 'pdf' answers 400 with "No PDF file
\* uploaded", writes nothing in either directory, and neither extracts text
\* nor calls the language-model service.
C2_NoFileAnswer400 ==
  \A r \in Requests :
    pdf_file[r] \in {"absent", "emptyname"} =>
      /\ pc[r] = "done"
      /\ response[r] = Resp400
      /\ PdfName(r) \notin UPLOAD_FOLDER
      /\ ImagesOf(r) = {}
      /\ written[r] = <<>>
      /\ stages[r] = <<"respond">>
      /\ reply[r] = NoReply
      /\ triples[r] = Unset

C2_Witness ==
  \E r \in Requests, o \in Requests :
    /\ pdf_file[r] = "absent"
    /\ response[r] = Resp400
    /\ o # r
    /\ PdfName(o) \in UPLOAD_FOLDER

\* C3: a request writes at most one image; once it has ended (400, 500,
\* unhandled failure or success) its answer carries image_url exactly when it
\* wrote one image, and the URL names that image, which is in the directory.
C3_OneImageOrNone ==
  \A r \in Requests :
    /\ Len(written[r]) <= 1
    /\ Cardinality(ImagesOf(r)) = Len(written[r])
    /\ pc[r] \in Terminal =>
         /\ response[r].key = "image_url" <=> Len(written[r]) = 1
         /\ response[r].key = "image_url" =>
              /\ response[r].file = written[r][1]
              /\ \E f \in GENERATED_FOLDER : f.name = response[r].file

C3_Witness ==
  \E r \in Requests, o \in Requests :
    /\ pc[r] = "done"
    /\ response[r] = Resp200(ImageName(r))
    /\ written[r] = <<ImageName(r)>>
    /\ pc[o] = "failed"
    /\ "build_render" \in Range(stages[o])

\* The reply is a JSON array (after cleaning) holding at least one triple
\* whose subject, predicate and object are non-empty.
UsableReply(id) ==
  LET v == json_loads(CleanReply(ReplyText(id)))
  IN  /\ v.ok
      /\ v.val.t = "array"
      /\ \E i \in 1..Len(v.val.v) :
           LET e == v.val.v[i]
           IN  /\ e.t = "object"
               /\ NonEmptyString(DictGet(e, Subject))
               /\ NonEmptyString(DictGet(e, Predicate))
               /\ NonEmptyString(DictGet(e, Object))
UsableOf == [id \in PipelineReplies |-> UsableReply(id)]

\* C4: a request whose model reply holds no usable triple (prose, malformed
\* JSON, JSON that is no array of objects, an empty array, triples that all
\* lack a field) ends with the structured 500 "No triples extracted from
\* PDF", never with success nor with an unhandled failure.
C4_UnusableReplyAnswers500 ==
  \A r \in Requests :
    (pc[r] \in Terminal /\ reply[r] # NoReply /\ ~UsableOf[reply[r]]) =>
      response[r] = Resp500

\* C5: extract_knowledge_triples never raises; a reply that is not valid JSON
\* after cleaning gives the empty list; a reply that is a valid JSON array
\* gives exactly its elements, in order.
C5_ExtractNeverRaises ==
  x_pc = "done" =>
    /\ ~x_result.raised
    /\ ~json_loads(cleaned_text).ok => IsEmptyList(x_result.val)
    /\ LET direct == json_loads(ReplyText(x_reply))
       IN  (direct.ok /\ direct.val.t = "array") =>
             /\ x_result.val = direct.val
             /\ (x_reply.wrap = "none" /\ x_reply.body \in ArrayBodies) =>
                  x_result.val = BodyValue(x_reply.body)

C5_Witness ==
  /\ x_pc = "done"
  /\ x_reply = [body |-> "prose", wrap |-> "json"]
  /\ ~json_loads(cleaned_text).ok
  /\ IsEmptyList(x_result.val)

\* The artists of a request's own graph: what its image should hold.
OwnArtists(r) ==
  NodeArtists(G[r], r) \cup EdgeArtists(G[r], r) \cup LabelArtists(G[r], r)

\* C6: whatever the interleaving of concurrent requests, the image a request
\* saved holds exactly the graph of its own triples, and its drawing, save
\* and close acted only on the figure it created.
C6_RequestsIsolated ==
  \A r \in Requests :
    /\ ~foreign[r]
    /\ \A f \in ImagesOf(r) : f.artists = OwnArtists(r) /\ f.title

\* The fields of the triples iterated over, and the triples among them
\* that have all three fields non-empty.
FieldsOf(t) == <<DictGet(t, Subject), DictGet(t, Predicate), DictGet(t, Object)>>
Complete(f) ==
  NonEmptyString(f[1]) /\ NonEmptyString(f[2]) /\ NonEmptyString(f[3])

\* C7: the edges of the built graph are exactly the (subject, object) pairs
\* of the complete triples, its nodes exactly their subjects and objects; an
\* incomplete triple adds nothing and raises nothing.
C7_GraphOfCompleteTriples ==
  LET fs == {FieldsOf(g_triples[i]) : i \in 1..Len(g_triples)}
      ok == {f \in fs : Complete(f)}
  IN  /\ {<<e.u, e.v>> : e \in g_G.edges} = {<<f[1], f[3]>> : f \in ok}
      /\ g_G.nodes = {f[1] : f \in ok} \cup {f[3] : f \in ok}
      /\ ~g_raised

C7_Witness ==
  /\ Len(g_triples) = 3
  /\ g_triples[1] = MkTriple(JStr(A), JStr(P), JStr(<<>>))
  /\ g_triples[2] = MkTriple(JStr(B), JStr(R), JStr(B))
  /\ g_triples[3] = MkTriple(JStr(A), Absent, JStr(B))
  /\ g_G.nodes = {JStr(B)}
  /\ Cardinality(g_G.edges) = 1

\* C8: a (subject, object) pair of several complete triples has exactly one
\* edge, labelled with the predicate of the last of them; no earlier label
\* is kept; the reverse pair is an edge of its own.
C8_LastLabelWins ==
  LET n  == Len(g_triples)
      fs == [i \in 1..n |-> FieldsOf(g_triples[i])]
      ok == {i \in 1..n : Complete(fs[i])}
  IN  \A i \in ok :
        LET same == {j \in ok : fs[j][1] = fs[i][1] /\ fs[j][3] = fs[i][3]}
            here == {e \in g_G.edges : e.u = fs[i][1] /\ e.v = fs[i][3]}
        IN  /\ Cardinality(here) = 1
            /\ \A e \in here : e.label = fs[MaxOf(same)][2]

C8_Witness ==
  /\ g_triples = <<MkTriple(JStr(A), JStr(P), JStr(B)),
                   MkTriple(JStr(A), JStr(R), JStr(B)),
                   MkTriple(JStr(B), JStr(P), JStr(A))>>
  /\ g_G.edges = {[u |-> JStr(A), v |-> JStr(B), label |-> JStr(R)],
                  [u |-> JStr(B), v |-> JStr(A), label |-> JStr(P)]}

\* C9: for a well-formed JSON array J, cleaning and parsing J wrapped in a
\* code fence gives what parsing J gives; cleaning J itself leaves it as it
\* is, and cleaning what was cleaned changes nothing.
C9_FenceStrippingKeepsArray ==
  (x_pc = "done" /\ x_reply.body \in ArrayBodies
     /\ x_reply.wrap \in FenceWraps \cup {"none"}) =>
    /\ cleaned_text = BodyText(x_reply.body)
    /\ ~x_result.raised
    /\ x_result.val = json_loads(BodyText(x_reply.body)).val
    /\ strip(re_sub(cleaned_text)) = cleaned_text

C9_Witness ==
  /\ x_pc = "done"
  /\ x_reply = [body |-> "ticks", wrap |-> "padded"]
  /\ x_result.val = BodyValue("ticks")

StageRank(s) ==
  CASE s = "persist"      -> 1
    [] s = "extract_text" -> 2
    [] s = "call_model"   -> 3
    [] s = "empty_check"  -> 4
    [] s = "build_render" -> 5
    [] s = "respond"      -> 6

StagesInOrder(r) ==
  \A i \in 1..Len(stages[r]), j \in 1..Len(stages[r]) :
    i < j => StageRank(stages[r][i]) < StageRank(stages[r][j])

\* C10: the stages of a request occur only in the order persist, extract
\* text, call the service, empty-check, build and render, respond, each at
\* most once (so the service is called at most once); a request that failed
\* enters no further stage and stays failed.
C10_SingleAttemptInOrder ==
  /\ [](\A r \in Requests :
          /\ StagesInOrder(r)
          /\ pc[r] = "failed" => "respond" \notin Range(stages[r]))
  /\ [][\A r \in Requests :
          pc[r] = "failed" => (pc'[r] = "failed" /\ stages'[r] = stages[r]
                                 /\ written'[r] = written[r])]_vars

C10_Witness ==
  \E r \in Requests, o \in Requests :
    /\ stages[r] = <<"persist", "extract_text", "call_model", "empty_check",
                     "build_render", "respond">>
    /\ pc[o] = "failed"
    /\ stages[o] = <<"persist", "extract_text", "call_model">>
    /\ reply[o] = NoReply

====
